---- MODULE Spec2Model ----
(***************************************************************************)
(* A model of pymkv's MKVFile (src/pymkv/MKVFile.py): an ordered list of   *)
(* tracks plus chapter and split options, projected by command() onto an   *)
(* mkvmerge argument list.                                                 *)
(*                                                                         *)
(* Python strings are sequences of one-character strings, so that string   *)
(* concatenation, slicing, joining and regular-expression matching are     *)
(* computed rather than assumed.  Python values of mixed type (None, int,  *)
(* str, list/tuple, other objects) are records [k, n, s, l]: k the type,   *)
(* n the integer, s the characters, l the items of a list or tuple; an     *)
(* MKVTrack is a record of its attributes with k = "MKVTrack".             *)
(***************************************************************************)
EXTENDS Integers, Sequences, FiniteSets, TLC

VARIABLES title, chapters, chapter_language, tracks, split_options, last, old

vars == <<title, chapters, chapter_language, tracks, split_options, last, old>>

(***************************************************************************)
(* Bounds of the model.                                                    *)
(***************************************************************************)
MaxTracks == 3

(***************************************************************************)
(* Python values.                                                          *)
(***************************************************************************)
NoneV == [k |-> "none", n |-> 0, s |-> <<>>, l |-> <<>>]

IntV(n) == [k |-> "int", n |-> n, s |-> <<>>, l |-> <<>>]

StrV(s) == [k |-> "str", n |-> 0, s |-> s, l |-> <<>>]

ListV(l) == [k |-> "list", n |-> 0, s |-> <<>>, l |-> l]

\* a float: neither int, str, list nor a bitmath object
FloatV == [k |-> "float", n |-> 0, s |-> <<>>, l |-> <<>>]

\* an object whose class lives in the bitmath module; n is its .bytes
BitmathV(n) == [k |-> "bitmath", n |-> n, s |-> <<>>, l |-> <<>>]

\* Python truthiness of a value, as tested by "if x:"
Truthy(v) ==
    CASE v.k = "none" -> FALSE
      [] v.k = "int" -> v.n # 0
      [] v.k = "str" -> Len(v.s) > 0
      [] v.k = "list" -> Len(v.l) > 0
      [] OTHER -> TRUE

(***************************************************************************)
(* String helpers: str(int), " ".join, splitting, substring test.          *)
(***************************************************************************)
Digits == <<"0", "1", "2", "3", "4", "5", "6", "7", "8", "9">>

DigitSet == {Digits[d] : d \in 1..Len(Digits)}

RECURSIVE NatToStr(_)
NatToStr(n) ==
    IF n < Len(Digits) THEN <<Digits[n + 1]>>
    ELSE NatToStr(n \div Len(Digits)) \o <<Digits[(n % Len(Digits)) + 1]>>

\* str(n) / '{}'.format(n) for an int
IntToStr(n) == IF n < 0 THEN <<"-">> \o NatToStr(-n) ELSE NatToStr(n)

\* sep.join(toks)
RECURSIVE Join(_, _)
Join(toks, sep) ==
    IF Len(toks) = 0 THEN <<>>
    ELSE IF Len(toks) = 1 THEN toks[1]
    ELSE toks[1] \o sep \o Join(Tail(toks), sep)

\* the fields of s between occurrences of the character c (like str.split(c))
RECURSIVE SplitOn(_, _)
SplitOn(s, c) ==
    IF \A p \in 1..Len(s) : s[p] # c THEN <<s>>
    ELSE LET p == CHOOSE q \in 1..Len(s) :
                      s[q] = c /\ \A r \in 1..(q - 1) : s[r] # c
         IN  <<SubSeq(s, 1, p - 1)>> \o SplitOn(SubSeq(s, p + 1, Len(s)), c)

\* needle in haystack, for Python strs
IsSubstring(needle, hay) ==
    \E p \in 0..(Len(hay) - Len(needle)) :
        SubSeq(hay, p + 1, p + Len(needle)) = needle

Home == <<"/", "h">>

\* os.path.expanduser: a leading "~" (alone or before "/") becomes $HOME
expanduser(p) ==
    IF Len(p) >= 1 /\ p[1] = "~" /\ (Len(p) = 1 \/ p[2] = "/")
    THEN Home \o Tail(p)
    ELSE p

(***************************************************************************)
(* Tracks.  MKVTrack objects carry the attributes command() reads.         *)
(***************************************************************************)
Track(path, id, type, name, lang, dflt, forced, excl) ==
    [k |-> "MKVTrack", path |-> path, track_id |-> id, track_type |-> type, track_name |-> name,
     language |-> lang, default_track |-> dflt, forced_track |-> forced,
     exclude_chapters |-> excl]

FileA == <<"a", ".", "m", "k", "v">>

FileB == <<"b", ".", "s", "r", "t">>

Eng == <<"e", "n", "g">>

\* the tracks callers add: one of each type, the flags varied over them
TrackPool ==
    { Track(FileA, 0, "video", StrV(<<"T", "1">>), NoneV, FALSE, FALSE, FALSE),
      Track(FileA, 1, "audio", NoneV, StrV(Eng), TRUE, TRUE, FALSE),
      Track(FileB, 0, "subtitles", StrV(<<>>), StrV(Eng), TRUE, FALSE, TRUE),
      Track(FileB, 12, "buttons", StrV(<<"B">>), StrV(<<>>), FALSE, TRUE, FALSE) }

PoolTrack(type) == CHOOSE t \in TrackPool : t.track_type = type

\* the track lists of the files a container is imported or extended from
ProbedFiles ==
    { <<>>,
      <<PoolTrack("video"), PoolTrack("audio")>>,
      <<PoolTrack("buttons"), PoolTrack("subtitles"), PoolTrack("video")>> }

\* the track numbers callers pass: every position, one below and one above
TrackNums == (-1)..MaxTracks

\* list[i] for a Python index 0 <= i < len(list)
At(list, i) == list[i + 1]

\* the list without the item at Python index 0 <= i < len(list)
Without(list, i) == SubSeq(list, 1, i) \o SubSeq(list, i + 2, Len(list))

Ok(ts) == [tracks |-> ts, err |-> "none"]

Raise(ts, e) == [tracks |-> ts, err |-> e]

\* list.pop(index): the index must be an int (negative ones count from the
\* end); returns the item and the remaining list
list_pop(list, index) ==
    IF index.k # "int" THEN [err |-> "TypeError", item |-> NoneV, rest |-> list]
    ELSE LET i == IF index.n < 0 THEN index.n + Len(list) ELSE index.n
         IN  IF 0 <= i /\ i < Len(list)
             THEN [err |-> "none", item |-> At(list, i), rest |-> Without(list, i)]
             ELSE [err |-> "IndexError", item |-> NoneV, rest |-> list]

\* add_track(track) for an MKVTrack, track_name left at None
add_track(ts, track) == Ok(Append(ts, track))

\* add_file(file): file stands for the track list of the MKVFile added
add_file(ts, file) == Ok(ts \o file)

remove_track_neg(ts, track_num) ==
    IF track_num < Len(ts)
    THEN Ok(Without(ts, IF track_num < 0 THEN track_num + Len(ts) ELSE track_num))
    ELSE Raise(ts, "IndexError")

remove_track(ts, track_num) ==
    IF 0 <= track_num /\ track_num < Len(ts)
    THEN Ok(Without(ts, track_num))
    ELSE Raise(ts, "IndexError")

\* self.tracks.insert(0, self.tracks.pop(self.tracks[track_num])): pop is
\* handed the track object itself
move_track_front(ts, track_num) ==
    IF 0 <= track_num /\ track_num < Len(ts)
    THEN LET p == list_pop(ts, At(ts, track_num))
         IN  IF p.err = "none" THEN Ok(<<p.item>> \o p.rest) ELSE Raise(ts, p.err)
    ELSE Raise(ts, "IndexError")

\* self.tracks.append(self.tracks.pop(self.tracks[track_num]))
move_track_end(ts, track_num) ==
    IF 0 <= track_num /\ track_num < Len(ts)
    THEN LET p == list_pop(ts, At(ts, track_num))
         IN  IF p.err = "none" THEN Ok(Append(p.rest, p.item)) ELSE Raise(ts, p.err)
    ELSE Raise(ts, "IndexError")

\* a[x], a[y] = a[y], a[x]: the right side is read first
Exchange(ts, x, y) ==
    [ts EXCEPT ![x + 1] = At(ts, y), ![y + 1] = At(ts, x)]

move_track_forward(ts, track_num) ==
    IF 0 <= track_num /\ track_num < Len(ts) - 1
    THEN Ok(Exchange(ts, track_num, track_num + 1))
    ELSE Raise(ts, "IndexError")

move_track_backward(ts, track_num) ==
    IF 0 < track_num /\ track_num < Len(ts)
    THEN Ok(Exchange(ts, track_num, track_num - 1))
    ELSE Raise(ts, "IndexError")

\* a slip: the two items are assigned one after the other, a[x] = a[y] and
\* then a[y] = a[x], so both end up holding the old a[y]
swap_tracks_seq(ts, track_num_1, track_num_2) ==
    IF /\ 0 <= track_num_1 /\ track_num_1 < Len(ts)
       /\ 0 <= track_num_2 /\ track_num_2 < Len(ts)
    THEN Ok([ts EXCEPT ![track_num_1 + 1] = At(ts, track_num_2)])
    ELSE Raise(ts, "IndexError")

swap_tracks(ts, track_num_1, track_num_2) ==
    IF /\ 0 <= track_num_1 /\ track_num_1 < Len(ts)
       /\ 0 <= track_num_2 /\ track_num_2 < Len(ts)
    THEN Ok(Exchange(ts, track_num_1, track_num_2))
    ELSE Raise(ts, "IndexError")

replace_track(ts, track_num, track) ==
    IF 0 <= track_num /\ track_num < Len(ts)
    THEN Ok([ts EXCEPT ![track_num + 1] = track])
    ELSE Raise(ts, "IndexError")

(***************************************************************************)
(* command(): the projection of the container onto mkvmerge arguments.     *)
(***************************************************************************)
mkvmerge_path == <<"m", "k", "v", "m", "e", "r", "g", "e">>

OptOutput == <<"-", "o">>

OptTitle == <<"-", "-", "t", "i", "t", "l", "e">>

OptTrackName == <<"-", "-", "t", "r", "a", "c", "k", "-", "n", "a", "m", "e">>

OptLanguage == <<"-", "-", "l", "a", "n", "g", "u", "a", "g", "e">>

OptDefaultTrack == <<"-", "-", "d", "e", "f", "a", "u", "l", "t", "-", "t", "r", "a", "c", "k">>

OptForcedTrack == <<"-", "-", "f", "o", "r", "c", "e", "d", "-", "t", "r", "a", "c", "k">>

OptNoChapters == <<"-", "-", "n", "o", "-", "c", "h", "a", "p", "t", "e", "r", "s">>

OptChapterLanguage == <<"-", "-", "c", "h", "a", "p", "t", "e", "r", "-", "l", "a", "n", "g", "u", "a", "g", "e">>

OptChapters == <<"-", "-", "c", "h", "a", "p", "t", "e", "r", "s">>

OptSplit == <<"-", "-", "s", "p", "l", "i", "t">>

\* the arguments one pass of the loop over self.tracks appends, with the
\* audio test inverted
TrackArgsAudioFlipped(track) ==
    LET id == IntToStr(track.track_id)
    IN  (IF Truthy(track.track_name)
         THEN <<OptTrackName, id \o <<":">> \o track.track_name.s>> ELSE <<>>)
        \o (IF Truthy(track.language)
            THEN <<OptLanguage, id \o <<":">> \o track.language.s>> ELSE <<>>)
        \o (IF ~track.default_track
            THEN <<OptDefaultTrack, id \o <<":", "0">>>> ELSE <<>>)
        \o (IF track.forced_track
            THEN <<OptForcedTrack, id \o <<":", "1">>>> ELSE <<>>)
        \o (IF track.track_type # "video" THEN <<<<"-", "D">>>> ELSE <<<<"-", "d">>, id>>)
        \o (IF track.track_type = "audio" THEN <<<<"-", "A">>>> ELSE <<<<"-", "a">>, id>>)
        \o (IF track.track_type # "subtitles" THEN <<<<"-", "S">>>> ELSE <<<<"-", "s">>, id>>)
        \o (IF track.exclude_chapters THEN <<OptNoChapters>> ELSE <<>>)
        \o <<track.path>>

\* the arguments one pass of the loop over self.tracks appends
TrackArgs(track) ==
    LET id == IntToStr(track.track_id)
    IN  (IF Truthy(track.track_name)
         THEN <<OptTrackName, id \o <<":">> \o track.track_name.s>> ELSE <<>>)
        \o (IF Truthy(track.language)
            THEN <<OptLanguage, id \o <<":">> \o track.language.s>> ELSE <<>>)
        \o (IF ~track.default_track
            THEN <<OptDefaultTrack, id \o <<":", "0">>>> ELSE <<>>)
        \o (IF track.forced_track
            THEN <<OptForcedTrack, id \o <<":", "1">>>> ELSE <<>>)
        \o (IF track.track_type # "video" THEN <<<<"-", "D">>>> ELSE <<<<"-", "d">>, id>>)
        \o (IF track.track_type # "audio" THEN <<<<"-", "A">>>> ELSE <<<<"-", "a">>, id>>)
        \o (IF track.track_type # "subtitles" THEN <<<<"-", "S">>>> ELSE <<<<"-", "s">>, id>>)
        \o (IF track.exclude_chapters THEN <<OptNoChapters>> ELSE <<>>)
        \o <<track.path>>

\* the loop over self.tracks
RECURSIVE TracksArgs(_)
TracksArgs(ts) ==
    IF Len(ts) = 0 THEN <<>> ELSE TrackArgs(Head(ts)) \o TracksArgs(Tail(ts))

\* the list command() builds for container c
command_list(c, output_file) ==
    <<mkvmerge_path, OptOutput, expanduser(output_file)>>
    \o (IF Truthy(c.title) THEN <<OptTitle, c.title.s>> ELSE <<>>)
    \o TracksArgs(c.tracks)
    \o (IF Truthy(c.chapter_language)
        THEN <<OptChapterLanguage, c.chapter_language.s>> ELSE <<>>)
    \o (IF Truthy(c.chapters) THEN <<OptChapters, c.chapters.s>> ELSE <<>>)
    \o c.split_options

\* command(output_file, subprocess): the list, or its items joined by " "
command(c, output_file, subprocess) ==
    IF subprocess THEN command_list(c, output_file)
    ELSE Join(command_list(c, output_file), <<" ">>)

(***************************************************************************)
(* check_ts and flatten.                                                   *)
(***************************************************************************)
\* [0-9]{lo,hi} over the whole of s
DigitRun(s, lo, hi) ==
    /\ lo <= Len(s) /\ Len(s) <= hi
    /\ \A p \in 1..Len(s) : s[p] \in DigitSet

\* [0-9]{1,2}(:[0-9]{1,2}){1,2}(\.[0-9]{1,9})? over the whole of s
TsBody(s) ==
    LET hasDot == \E p \in 1..Len(s) : s[p] = "."
        dot == IF hasDot
               THEN CHOOSE p \in 1..Len(s) :
                        s[p] = "." /\ \A q \in 1..(p - 1) : s[q] # "."
               ELSE Len(s) + 1
        main == SubSeq(s, 1, dot - 1)
        frac == SubSeq(s, dot + 1, Len(s))
        fields == SplitOn(main, ":")
    IN  /\ hasDot => DigitRun(frac, 1, 9)
        /\ Len(fields) \in {2, 3}
        /\ \A f \in 1..Len(fields) : DigitRun(fields[f], 1, 2)

\* re.match('^...$', s): "$" also matches just before a final newline
re_match_ts(s) ==
    \/ TsBody(s)
    \/ Len(s) > 0 /\ s[Len(s)] = "\n" /\ TsBody(SubSeq(s, 1, Len(s) - 1))

\* re.match('^\+?...$', s)
re_match_plus_ts(s) ==
    \/ re_match_ts(s)
    \/ Len(s) > 0 /\ s[1] = "+" /\ re_match_ts(Tail(s))

\* check_ts(timestamp, plus): what it returns, "True", "False" or "None"
\* (the bare return of the plus branch)
check_ts(timestamp, plus) ==
    IF timestamp.k = "str"
    THEN IF re_match_ts(timestamp.s) THEN "True"
         ELSE IF plus /\ re_match_plus_ts(timestamp.s) THEN "None"
         ELSE "False"
    ELSE IF timestamp.k = "int" THEN "True"
    ELSE "False"

\* the truth value callers take from check_ts's result
Accepted(result) == result = "True"

RECURSIVE flatten(_)
\* flatten(item): the leaves of nested lists and tuples, in order
flatten(item) ==
    LET RECURSIVE Each(_)
        Each(items) ==
            IF Len(items) = 0 THEN <<>>
            ELSE flatten(Head(items)) \o Each(Tail(items))
    IN  IF item.k = "list" THEN Each(item.l) ELSE <<item>>

(***************************************************************************)
(* The split directives.  Each returns the new _split_options and the      *)
(* exception raised ("none" when the call returns).                        *)
(***************************************************************************)
SizePrefix == <<"s", "i", "z", "e", ":">>

DurationPrefix == <<"d", "u", "r", "a", "t", "i", "o", "n", ":">>

TimestampsPrefix == <<"t", "i", "m", "e", "s", "t", "a", "m", "p", "s", ":">>

PartsPrefix == <<"p", "a", "r", "t", "s", ":">>

\* s[:-1]
DropLast(s) == SubSeq(s, 1, Len(s) - 1)

Set(directive) == [opts |-> <<OptSplit, directive>>, err |-> "none"]

Reject(opts, e) == [opts |-> opts, err |-> e]

\* a slip: the new directive is added to the list instead of replacing it
split_size_extend(opts, size) ==
    IF size.k \notin {"bitmath", "int"} THEN Reject(opts, "TypeError")
    ELSE [opts |-> opts \o <<OptSplit, SizePrefix \o IntToStr(size.n)>>,
          err |-> "none"]

split_size(opts, size) ==
    IF size.k = "bitmath" THEN Set(SizePrefix \o IntToStr(size.n))
    ELSE IF size.k # "int" THEN Reject(opts, "TypeError")
    ELSE Set(SizePrefix \o IntToStr(size.n))

split_duration(opts, duration) ==
    IF duration.k = "str" /\ Accepted(check_ts(duration, FALSE))
    THEN Set(DurationPrefix \o duration.s)
    ELSE IF duration.k = "int"
    THEN Set(DurationPrefix \o IntToStr(duration.n) \o <<"s">>)
    ELSE Reject(opts, "TypeError")

\* the loop of split_timestamps over the flattened timestamps: the string
\* built, or the exception of the first bad item
RECURSIVE TimestampsLoop(_, _)
TimestampsLoop(items, ts_string) ==
    IF Len(items) = 0 THEN [err |-> "none", s |-> ts_string]
    ELSE LET ts == Head(items)
         IN  IF ts.k = "int"
             THEN TimestampsLoop(Tail(items),
                                 ts_string \o IntToStr(ts.n) \o <<"s", ",">>)
             ELSE IF ts.k = "str" /\ Accepted(check_ts(ts, FALSE))
             THEN TimestampsLoop(Tail(items), ts_string \o ts.s \o <<",">>)
             ELSE IF ts.k # "int" /\ ts.k # "str"
             THEN [err |-> "TypeError", s |-> ts_string]
             ELSE [err |-> "ValueError", s |-> ts_string]

\* a slip: the directive is stored as it grows, so a failing call leaves
\* the part built so far
split_timestamps_partial(opts, timestamps) ==
    IF Len(timestamps) = 0 THEN Reject(opts, "ValueError")
    ELSE LET r == TimestampsLoop(flatten(ListV(timestamps)), TimestampsPrefix)
         IN  [opts |-> <<OptSplit, DropLast(r.s)>>, err |-> r.err]

\* split_timestamps(*timestamps): timestamps is the tuple of arguments
split_timestamps(opts, timestamps) ==
    IF Len(timestamps) = 0 THEN Reject(opts, "ValueError")
    ELSE LET r == TimestampsLoop(flatten(ListV(timestamps)), TimestampsPrefix)
         IN  IF r.err = "none" THEN Set(DropLast(r.s)) ELSE Reject(opts, r.err)

\* the text split_parts appends for one member of a pair
PartText(v) ==
    IF v.k = "int" THEN IntToStr(v.n) \o <<"s">>
    ELSE IF v.k # "none" THEN v.s
    ELSE <<>>

\* the checks split_parts makes on one pair
PairOk(pair) ==
    /\ pair.k = "list" /\ Len(pair.l) = 2
    /\ ~(pair.l[1].k # "none" /\ ~Accepted(check_ts(pair.l[1], TRUE)))
    /\ ~(pair.l[2].k # "none" /\ ~Accepted(check_ts(pair.l[2], FALSE)))
    /\ pair.l[1] # pair.l[2]

\* the loop of split_parts over the pairs
RECURSIVE PartsLoop(_, _)
PartsLoop(pairs, ts_string) ==
    IF Len(pairs) = 0 THEN [err |-> "none", s |-> ts_string]
    ELSE LET pair == Head(pairs)
         IN  IF ~PairOk(pair) THEN [err |-> "ValueError", s |-> ts_string]
             ELSE PartsLoop(Tail(pairs),
                            ts_string \o PartText(pair.l[1]) \o <<"-">>
                                      \o PartText(pair.l[2]) \o <<",">>)

\* split_parts(parts): parts is a list or tuple
split_parts(opts, parts) ==
    IF Len(parts.l) = 0 THEN Reject(opts, "ValueError")
    ELSE LET r == PartsLoop(parts.l, PartsPrefix)
         IN  IF r.err = "none" THEN Set(DropLast(r.s)) ELSE Reject(opts, r.err)

(***************************************************************************)
(* add_chapters.                                                           *)
(***************************************************************************)
\* the paths os.path.isfile finds
Files == { <<"c">> }

isfile(path) == path \in Files

\* what open('ISO639-2.txt').read() returns
IsoCodes == <<"e", "n", "g", "\n", "f", "r", "e">>

\* add_chapters(path, language) on a container whose fields are chap
\* and lang: the new fields and the exception raised
add_chapters(chap, lang, path, language) ==
    LET stored == StrV(expanduser(path.s))
    IN  IF ~isfile(stored.s)
        THEN [chapters |-> stored, chapter_language |-> lang,
              err |-> "FileNotFoundError"]
        ELSE IF Truthy(language)
        THEN IF IsSubstring(language.s, IsoCodes)
             THEN [chapters |-> stored, chapter_language |-> language,
                   err |-> "none"]
             ELSE [chapters |-> stored, chapter_language |-> lang,
                   err |-> "ValueError"]
        ELSE [chapters |-> stored, chapter_language |-> lang, err |-> "none"]

(***************************************************************************)
(* The arguments callers pass.                                             *)
(***************************************************************************)
Ts130 == StrV(<<"1", ":", "3", "0">>)

Ts200 == StrV(<<"0", "2", ":", "0", "0", ":", "0", "0", ".", "5">>)

TsPlus130 == StrV(<<"+", "1", ":", "3", "0">>)

TsPlus200 == StrV(<<"+", "0", "2", ":", "0", "0", ":", "0", "0", ".", "5">>)

Abc == StrV(<<"a", "b", "c">>)

Pair(start, end) == ListV(<<start, end>>)

Titles == { NoneV, StrV(<<"M", "y", " ", "M", "o", "v", "i", "e">>) }

OutputFiles == { <<"o">>, <<"~", "/", "o">> }

ChapterPaths == { StrV(<<"c">>), StrV(<<"~", "/", "m">>) }

Languages == { NoneV, StrV(Eng), StrV(<<"z", "z">>) }

SizeInputs == { IntV(700), BitmathV(5), StrV(<<"x">>), FloatV }

DurationInputs == { Ts130, IntV(90), Abc, TsPlus130 }

\* the argument tuples of split_timestamps
TimestampInputs ==
    { <<>>,
      <<Ts130>>,
      <<IntV(5), Ts130, Abc>>,
      <<ListV(<<IntV(5), ListV(<<Ts200>>)>>), Ts130>>,
      <<ListV(<<Ts130, ListV(<<Abc>>)>>)>>,
      <<IntV(5), FloatV>>,
      <<ListV(<<>>)>> }

PartsInputs ==
    { ListV(<<>>),
      ListV(<<Pair(Ts130, Ts200)>>),
      ListV(<<Pair(TsPlus130, Ts200)>>),
      ListV(<<Pair(Ts130, TsPlus200)>>),
      ListV(<<Pair(Ts130, Ts130)>>),
      ListV(<<Pair(NoneV, NoneV)>>),
      ListV(<<Pair(NoneV, IntV(5)), Pair(Ts130, NoneV)>>),
      ListV(<<Pair(IntV(5), Ts130), Pair(Abc, NoneV)>>),
      ListV(<<Pair(Ts130, Ts200), Pair(Ts200, Ts200)>>),
      ListV(<<Pair(Ts130, Ts200), ListV(<<Ts200>>)>>) }

(***************************************************************************)
(* The state machine.  last is the latest call (method, arguments, the     *)
(* exception it raised, what it returned) and old the container as that    *)
(* call found it.                                                          *)
(***************************************************************************)
Container ==
    [title |-> title, chapters |-> chapters, chapter_language |-> chapter_language,
     tracks |-> tracks, split_options |-> split_options]

Call(op, i, j, arg, err, ret) ==
    [op |-> op, i |-> i, j |-> j, arg |-> arg, err |-> err, ret |-> ret]

\* MKVFile(path, title): the tracks are those of the probed file, if any
Init ==
    /\ title \in Titles
    /\ chapters = NoneV
    /\ chapter_language = NoneV
    /\ tracks \in {f \in ProbedFiles : Len(f) <= MaxTracks}
    /\ split_options = <<>>
    /\ last = Call("__init__", 0, 0, NoneV, "none", NoneV)
    /\ old = [title |-> title, chapters |-> NoneV, chapter_language |-> NoneV,
              tracks |-> tracks, split_options |-> <<>>]

\* a call of a track method, with result r
TrackCall(op, i, j, arg, r) ==
    /\ tracks' = r.tracks
    /\ last' = Call(op, i, j, arg, r.err, NoneV)
    /\ old' = Container
    /\ UNCHANGED <<title, chapters, chapter_language, split_options>>

\* a call of a split method, with result r
SplitCall(op, arg, r) ==
    /\ split_options' = r.opts
    /\ last' = Call(op, 0, 0, arg, r.err, NoneV)
    /\ old' = Container
    /\ UNCHANGED <<title, chapters, chapter_language, tracks>>

AddTrack ==
    \E t \in TrackPool :
        /\ Len(tracks) < MaxTracks
        /\ TrackCall("add_track", 0, 0, t, add_track(tracks, t))

AddFile ==
    \E f \in ProbedFiles :
        /\ Len(tracks) + Len(f) <= MaxTracks
        /\ TrackCall("add_file", 0, 0, ListV(f), add_file(tracks, f))

RemoveTrack ==
    \E n \in TrackNums :
        TrackCall("remove_track", n, 0, NoneV, remove_track(tracks, n))

MoveTrackFront ==
    \E n \in TrackNums :
        TrackCall("move_track_front", n, 0, NoneV, move_track_front(tracks, n))

MoveTrackEnd ==
    \E n \in TrackNums :
        TrackCall("move_track_end", n, 0, NoneV, move_track_end(tracks, n))

MoveTrackForward ==
    \E n \in TrackNums :
        TrackCall("move_track_forward", n, 0, NoneV, move_track_forward(tracks, n))

MoveTrackBackward ==
    \E n \in TrackNums :
        TrackCall("move_track_backward", n, 0, NoneV, move_track_backward(tracks, n))

SwapTracks ==
    \E m \in TrackNums, n \in TrackNums :
        TrackCall("swap_tracks", m, n, NoneV, swap_tracks(tracks, m, n))

ReplaceTrack ==
    \E n \in TrackNums, t \in TrackPool :
        TrackCall("replace_track", n, 0, t, replace_track(tracks, n, t))

SplitSize ==
    \E size \in SizeInputs :
        SplitCall("split_size", size, split_size(split_options, size))

SplitDuration ==
    \E d \in DurationInputs :
        SplitCall("split_duration", d, split_duration(split_options, d))

SplitTimestamps ==
    \E ts \in TimestampInputs :
        SplitCall("split_timestamps", ListV(ts), split_timestamps(split_options, ts))

SplitParts ==
    \E parts \in PartsInputs :
        SplitCall("split_parts", parts, split_parts(split_options, parts))

AddChapters ==
    \E path \in ChapterPaths, language \in Languages :
        LET r == add_chapters(chapters, chapter_language, path, language)
        IN  /\ chapters' = r.chapters
            /\ chapter_language' = r.chapter_language
            /\ last' = Call("add_chapters", 0, 0, ListV(<<path, language>>),
                            r.err, NoneV)
            /\ old' = Container
            /\ UNCHANGED <<title, tracks, split_options>>

Command ==
    \E output_file \in OutputFiles, subprocess \in BOOLEAN :
        /\ last' = Call("command", 0, 0,
                        [output_file |-> output_file, subprocess |-> subprocess],
                        "none", command(Container, output_file, subprocess))
        /\ old' = Container
        /\ UNCHANGED <<title, chapters, chapter_language, tracks, split_options>>

\* the methods that work on the track list, and command()
NextTracks ==
    \/ AddTrack
    \/ AddFile
    \/ RemoveTrack
    \/ MoveTrackFront
    \/ MoveTrackEnd
    \/ MoveTrackForward
    \/ MoveTrackBackward
    \/ SwapTracks
    \/ ReplaceTrack
    \/ Command

\* the methods that work on the split and chapter options, and command()
NextOptions ==
    \/ SplitSize
    \/ SplitDuration
    \/ SplitTimestamps
    \/ SplitParts
    \/ AddChapters
    \/ Command

Next == NextTracks \/ NextOptions

Spec == Init /\ [][Next]_vars

\* Track methods leave the options alone and option methods leave the
\* tracks alone, so each group is also explored on its own, over every
\* initial container.
SpecTracks == Init /\ [][NextTracks]_vars

SpecOptions == Init /\ [][NextOptions]_vars

(***************************************************************************)
(* Vocabulary of the properties.                                           *)
(***************************************************************************)
InRange(ts, n) == 0 <= n /\ n < Len(ts)

Failed == last.err # "none"

SplitOps == {"split_size", "split_duration", "split_timestamps", "split_parts"}

\* an optional string that holds a non-empty value
IsSet(v) == v # NoneV /\ v # StrV(<<>>)

\* a str that is a timestamp H:M[:S][.fraction]
IsTimestamp(v) == v.k = "str" /\ re_match_ts(v.s)

\* a str that is "+" followed by a timestamp
IsPlusTimestamp(v) ==
    v.k = "str" /\ Len(v.s) > 0 /\ v.s[1] = "+" /\ re_match_ts(Tail(v.s))

\* the words of a command line: the maximal runs of non-blank characters
RECURSIVE Words(_)
Words(s) ==
    LET blank == {" ", "\t", "\n"}
    IN  IF Len(s) = 0 THEN <<>>
        ELSE IF s[1] \in blank THEN Words(Tail(s))
        ELSE LET n == CHOOSE m \in 1..Len(s) :
                          /\ \A p \in 1..m : s[p] \notin blank
                          /\ m = Len(s) \/ s[m + 1] \in blank
             IN  <<SubSeq(s, 1, n)>> \o Words(SubSeq(s, n + 1, Len(s)))

(***************************************************************************)
(* C1: move_track_front(i) with 0 <= i < n returns without an error, and   *)
(* afterwards the track that was at position i is first and the others     *)
(* keep their order.                                                       *)
(***************************************************************************)
C1_MoveFrontPlacesTrackFirst ==
    (last.op = "move_track_front" /\ InRange(old.tracks, last.i)) =>
        /\ last.err = "none"
        /\ Len(tracks) = Len(old.tracks)
        /\ tracks[1] = old.tracks[last.i + 1]
        /\ \A p \in 1..last.i : tracks[p + 1] = old.tracks[p]
        /\ \A p \in (last.i + 2)..Len(tracks) : tracks[p] = old.tracks[p]

(***************************************************************************)
(* C2: move_track_end(i) with 0 <= i < n returns without an error, and     *)
(* afterwards the track that was at position i is last and the others      *)
(* keep their order.                                                       *)
(***************************************************************************)
C2_MoveEndPlacesTrackLast ==
    (last.op = "move_track_end" /\ InRange(old.tracks, last.i)) =>
        /\ last.err = "none"
        /\ Len(tracks) = Len(old.tracks)
        /\ tracks[Len(tracks)] = old.tracks[last.i + 1]
        /\ \A p \in 1..last.i : tracks[p] = old.tracks[p]
        /\ \A p \in (last.i + 2)..Len(tracks) : tracks[p - 1] = old.tracks[p]

(***************************************************************************)
(* C3: split_parts accepts a pair whose start is "+" followed by a valid   *)
(* timestamp and whose end is a valid timestamp: no error is raised and    *)
(* the split directive becomes the "parts:" list holding that              *)
(* "<start>-<end>" segment.  A pair with the "+" on its end is rejected.   *)
(***************************************************************************)
C3_PlusOnStartAccepted ==
    (last.op = "split_parts" /\ Len(last.arg.l) = 1) =>
        LET pair == last.arg.l[1]
        IN  /\ (IsPlusTimestamp(pair.l[1]) /\ IsTimestamp(pair.l[2])) =>
                   /\ last.err = "none"
                   /\ split_options =
                          <<OptSplit,
                            PartsPrefix \o pair.l[1].s \o <<"-">> \o pair.l[2].s>>
            /\ IsPlusTimestamp(pair.l[2]) => Failed

(***************************************************************************)
(* C4: when add_chapters fails, with FileNotFoundError (the chapters path  *)
(* is no file) or ValueError (the language is no ISO639-2 code), the       *)
(* stored chapters file and chapter language are what they were before     *)
(* the call, so command() emits the same chapter flags as before it.       *)
(***************************************************************************)
C4_FailedAddChaptersChangesNothing ==
    (last.op = "add_chapters" /\ last.err \in {"FileNotFoundError", "ValueError"}) =>
        /\ chapters = old.chapters
        /\ chapter_language = old.chapter_language
        /\ \A o \in OutputFiles : command_list(Container, o) = command_list(old, o)

(***************************************************************************)
(* C5: an index-based track method given an index out of its range         *)
(* (remove_track, move_track_front, move_track_end, replace_track and      *)
(* either index of swap_tracks outside [0, length); move_track_forward     *)
(* outside [0, length - 1); move_track_backward outside (0, length))       *)
(* raises IndexError and leaves the track list as it was.                  *)
(***************************************************************************)
C5_OutOfRange ==
    LET n == Len(old.tracks)
    IN  \/ /\ last.op \in {"remove_track", "move_track_front", "move_track_end",
                           "replace_track"}
           /\ ~(0 <= last.i /\ last.i < n)
        \/ /\ last.op = "swap_tracks"
           /\ ~(0 <= last.i /\ last.i < n) \/ ~(0 <= last.j /\ last.j < n)
        \/ /\ last.op = "move_track_forward"
           /\ ~(0 <= last.i /\ last.i < n - 1)
        \/ /\ last.op = "move_track_backward"
           /\ ~(0 < last.i /\ last.i < n)

\* C5: a track method given an index out of its range raises IndexError
\* and leaves the track list as it was.
C5_OutOfRangeIndexRejected ==
    C5_OutOfRange => (last.err = "IndexError" /\ tracks = old.tracks)

\* swap_tracks was called on three tracks with one index in range and the
\* other past the end, and was refused
C5_Witness ==
    /\ last.op = "swap_tracks"
    /\ Len(old.tracks) = MaxTracks
    /\ last.i = 0 /\ last.j = Len(old.tracks)
    /\ last.err = "IndexError"

(***************************************************************************)
(* C6: swap_tracks(i, j) with both indices in range (i = j included)       *)
(* returns without an error, exchanges positions i and j and leaves every  *)
(* other position as it was; the same call made a second time in a row     *)
(* restores the order the first call found.                                *)
(***************************************************************************)
C6_Swapped ==
    (last.op = "swap_tracks" /\ InRange(old.tracks, last.i)
                             /\ InRange(old.tracks, last.j)) =>
        /\ last.err = "none"
        /\ Len(tracks) = Len(old.tracks)
        /\ tracks[last.i + 1] = old.tracks[last.j + 1]
        /\ tracks[last.j + 1] = old.tracks[last.i + 1]
        /\ \A p \in 1..Len(tracks) :
               (p # last.i + 1 /\ p # last.j + 1) => tracks[p] = old.tracks[p]

\* C6: every swap_tracks(i, j) with both indices in range exchanges just
\* positions i and j, and the same call made again at once restores the
\* list the first call found.
C6_SwapTwiceRestores ==
    [][ /\ C6_Swapped'
        /\ ( /\ last.op = "swap_tracks" /\ last.err = "none"
             /\ last'.op = "swap_tracks"
             /\ last'.i = last.i /\ last'.j = last.j )
           => (last'.err = "none" /\ tracks' = old.tracks) ]_vars

\* a swap of two different tracks of a list of three
C6_Witness ==
    /\ last.op = "swap_tracks" /\ last.err = "none"
    /\ Len(tracks) = MaxTracks
    /\ last.i # last.j
    /\ tracks # old.tracks
    /\ old.tracks = swap_tracks(tracks, last.i, last.j).tracks

(***************************************************************************)
(* C7: the container holds at most one split directive, and after an       *)
(* accepted split_size, split_duration, split_timestamps or split_parts    *)
(* call it is the directive of that call alone (what the call stores in a  *)
(* container that had none); every other call leaves it as it was.         *)
(* command() ends with no split arguments or with that one "--split        *)
(* <directive>" pair.                                                      *)
(***************************************************************************)
C7_DirectiveAlone(op, arg) ==
    CASE op = "split_size" -> split_size(<<>>, arg).opts
      [] op = "split_duration" -> split_duration(<<>>, arg).opts
      [] op = "split_timestamps" -> split_timestamps(<<>>, arg.l).opts
      [] op = "split_parts" -> split_parts(<<>>, arg).opts

C7_ModePrefix(op) ==
    CASE op = "split_size" -> SizePrefix
      [] op = "split_duration" -> DurationPrefix
      [] op = "split_timestamps" -> DropLast(TimestampsPrefix)
      [] op = "split_parts" -> PartsPrefix

\* C7: one split directive at most, that of the latest accepted split call
\* alone, and command() ends with it.
C7_OneSplitDirective ==
    /\ \/ split_options = <<>>
       \/ Len(split_options) = 2 /\ split_options[1] = OptSplit
    /\ (last.op \in SplitOps /\ ~Failed) =>
           /\ split_options = C7_DirectiveAlone(last.op, last.arg)
           /\ LET prefix == C7_ModePrefix(last.op)
              IN  SubSeq(split_options[2], 1, Len(prefix)) = prefix
    /\ (last.op \notin SplitOps \/ Failed) => split_options = old.split_options
    /\ (last.op = "command" /\ last.arg.subprocess) =>
           LET n == Len(last.ret)
           IN  /\ SubSeq(last.ret, n - Len(split_options) + 1, n) = split_options
               /\ Cardinality({p \in 1..n : last.ret[p] = OptSplit})
                      = Len(split_options) \div 2

\* split_size was accepted by a container that held a directive of another
\* mode
C7_Witness ==
    /\ last.op = "split_size" /\ ~Failed
    /\ Len(old.split_options) = 2
    /\ SubSeq(old.split_options[2], 1, Len(PartsPrefix)) = PartsPrefix
    /\ split_options # old.split_options

(***************************************************************************)
(* C8: command() leaves the container as it is and returns, in this        *)
(* order: the output path; the title flag if a title is set; one block     *)
(* per track in list order (name flag if named, language flag if set,      *)
(* "--default-track <id>:0" exactly when the track is not default,         *)
(* "--forced-track <id>:1" exactly when it is forced, the stream-selection *)
(* flags, "--no-chapters" if chapters are excluded, the source path        *)
(* last); the chapter-language flag if set; the chapters-file flag if set; *)
(* the split directive if set.  The string form holds the same tokens in   *)
(* the same order as the list form.                                        *)
(***************************************************************************)
C8_Block(t) ==
    LET id == IntToStr(t.track_id)
    IN  (IF IsSet(t.track_name)
         THEN <<OptTrackName, id \o <<":">> \o t.track_name.s>> ELSE <<>>)
        \o (IF IsSet(t.language)
            THEN <<OptLanguage, id \o <<":">> \o t.language.s>> ELSE <<>>)
        \o (IF t.default_track THEN <<>> ELSE <<OptDefaultTrack, id \o <<":", "0">>>>)
        \o (IF t.forced_track THEN <<OptForcedTrack, id \o <<":", "1">>>> ELSE <<>>)
        \o (CASE t.track_type = "video" -> <<<<"-", "d">>, id, <<"-", "A">>, <<"-", "S">>>>
              [] t.track_type = "audio" -> <<<<"-", "D">>, <<"-", "a">>, id, <<"-", "S">>>>
              [] t.track_type = "subtitles" -> <<<<"-", "D">>, <<"-", "A">>, <<"-", "s">>, id>>
              [] OTHER -> <<<<"-", "D">>, <<"-", "A">>, <<"-", "S">>>>)
        \o (IF t.exclude_chapters THEN <<OptNoChapters>> ELSE <<>>)
        \o <<t.path>>

RECURSIVE C8_Blocks(_)
C8_Blocks(ts) ==
    IF ts = <<>> THEN <<>> ELSE C8_Block(Head(ts)) \o C8_Blocks(Tail(ts))

C8_Tokens(c, output_file) ==
    <<mkvmerge_path, OptOutput, expanduser(output_file)>>
    \o (IF IsSet(c.title) THEN <<OptTitle, c.title.s>> ELSE <<>>)
    \o C8_Blocks(c.tracks)
    \o (IF IsSet(c.chapter_language)
        THEN <<OptChapterLanguage, c.chapter_language.s>> ELSE <<>>)
    \o (IF IsSet(c.chapters) THEN <<OptChapters, c.chapters.s>> ELSE <<>>)
    \o c.split_options

\* the part of C8 about the list form
C8_ListInOrder ==
    (last.op = "command" /\ last.arg.subprocess) =>
        /\ Container = old
        /\ last.ret = C8_Tokens(Container, last.arg.output_file)

\* C8: command() changes nothing, its list form holds the arguments in the
\* stated order, and its string form holds the same tokens in that order.
C8_CommandProjection ==
    /\ C8_ListInOrder
    /\ (last.op = "command" /\ ~last.arg.subprocess) =>
           /\ Container = old
           /\ Words(last.ret) = C8_Tokens(Container, last.arg.output_file)

(***************************************************************************)
(* C9: in the block command() emits for a track, the stream-selection      *)
(* flags enable the track by its id with the flag of its own kind and      *)
(* disable the two other kinds.  As claimed, for every track type (no      *)
(* block disables all three kinds); as amended, for video, audio and       *)
(* subtitles tracks, a track of any other type getting "-D", "-A" and      *)
(* "-S" and no enabling flag.                                              *)
(***************************************************************************)
C9_Enable == {<<"-", "d">>, <<"-", "a">>, <<"-", "s">>}

C9_Disable == {<<"-", "D">>, <<"-", "A">>, <<"-", "S">>}

C9_Own(type) ==
    CASE type = "video" -> [on |-> <<"-", "d">>, off |-> <<"-", "D">>]
      [] type = "audio" -> [on |-> <<"-", "a">>, off |-> <<"-", "A">>]
      [] type = "subtitles" -> [on |-> <<"-", "s">>, off |-> <<"-", "S">>]
      [] OTHER -> [on |-> <<>>, off |-> <<>>]

\* where the block of the track at position p starts in the list form
RECURSIVE C9_BlockStart(_, _)
C9_BlockStart(list, p) ==
    IF p = 1
    THEN Len(<<mkvmerge_path, OptOutput, <<>>>>) + (IF IsSet(title) THEN 2 ELSE 0)
    ELSE C9_BlockStart(list, p - 1) + Len(TrackArgs(tracks[p - 1]))

\* the block of the track at position p, cut out of the list form
C9_BlockOf(list, p) ==
    SubSeq(list, C9_BlockStart(list, p) + 1,
           C9_BlockStart(list, p) + Len(TrackArgs(tracks[p])))

\* block b enables the track of the given id by one flag and disables the
\* other two kinds
C9_EnablesItself(b, id) ==
    LET on == {p \in 1..Len(b) : b[p] \in C9_Enable}
        off == {b[p] : p \in {q \in 1..Len(b) : b[q] \in C9_Disable}}
    IN  /\ Cardinality(on) = 1
        /\ \A p \in on : p < Len(b) /\ b[p + 1] = IntToStr(id)
        /\ Cardinality(off) = 2

\* the blocks are where C9_BlockOf finds them: each ends with its path
C9_BlocksFound ==
    \A p \in 1..Len(tracks) :
        LET b == C9_BlockOf(last.ret, p)
        IN  Len(b) > 0 /\ b[Len(b)] = tracks[p].path

\* C9 as claimed: the block of every track, whatever its type, enables the
\* track by its id with one of -d, -a, -s and disables the other two kinds.
C9_EveryTrackEnablesItself ==
    (last.op = "command" /\ last.arg.subprocess) =>
        /\ C9_BlocksFound
        /\ \A p \in 1..Len(tracks) :
               C9_EnablesItself(C9_BlockOf(last.ret, p), tracks[p].track_id)

\* C9 as amended: the block of a video, audio or subtitles track enables
\* the track by its id with the flag of its kind and disables the other two
\* kinds; the block of a track of another type holds -D, -A and -S.
C9_MediaTracksEnableThemselves ==
    (last.op = "command" /\ last.arg.subprocess) =>
        /\ C9_BlocksFound
        /\ \A p \in 1..Len(tracks) :
               LET b == C9_BlockOf(last.ret, p)
                   own == C9_Own(tracks[p].track_type)
                   flags == {b[q] : q \in 1..Len(b)} \cap (C9_Enable \cup C9_Disable)
               IN  IF tracks[p].track_type \in {"video", "audio", "subtitles"}
                   THEN /\ C9_EnablesItself(b, tracks[p].track_id)
                        /\ flags = {own.on} \cup (C9_Disable \ {own.off})
                   ELSE flags = C9_Disable

\* command() on a container that holds an audio track, a subtitles track
\* and a track of another type
C9_Witness ==
    /\ last.op = "command" /\ last.arg.subprocess
    /\ Len(tracks) = MaxTracks
    /\ \E p, q, r \in 1..Len(tracks) :
           /\ tracks[p].track_type = "audio"
           /\ tracks[q].track_type = "subtitles"
           /\ tracks[r].track_type \notin {"video", "audio", "subtitles"}

(***************************************************************************)
(* C10: a split call that raises leaves the split directive as it was,     *)
(* and these calls raise: split_timestamps with no argument or with a      *)
(* string that is no timestamp among its flattened arguments; split_parts  *)
(* with an empty sequence, with a pair whose start equals its end or with  *)
(* a "+" on the end of a pair; split_duration with a string that is no     *)
(* timestamp; split_size with a string.                                    *)
(***************************************************************************)
C10_IsPair(v) == v.k = "list" /\ Len(v.l) = 2

C10_MustBeRejected ==
    \/ /\ last.op = "split_timestamps"
       /\ \/ Len(last.arg.l) = 0
          \/ LET leaves == flatten(last.arg)
             IN  \E p \in 1..Len(leaves) :
                     leaves[p].k = "str" /\ ~IsTimestamp(leaves[p])
    \/ /\ last.op = "split_parts"
       /\ \/ Len(last.arg.l) = 0
          \/ \E p \in 1..Len(last.arg.l) :
                 /\ C10_IsPair(last.arg.l[p])
                 /\ \/ last.arg.l[p].l[1] = last.arg.l[p].l[2]
                    \/ IsPlusTimestamp(last.arg.l[p].l[2])
    \/ last.op = "split_duration" /\ last.arg.k = "str" /\ ~IsTimestamp(last.arg)
    \/ last.op = "split_size" /\ last.arg.k = "str"

\* C10: the listed split calls raise, and a split call that raises leaves
\* the split directive as it was.
C10_RejectedSplitKeepsDirective ==
    /\ C10_MustBeRejected => Failed
    /\ (last.op \in SplitOps /\ Failed) => split_options = old.split_options

\* split_timestamps raised on a later argument, after an earlier one had
\* passed, in a container that held a directive
C10_Witness ==
    /\ last.op = "split_timestamps" /\ last.err = "ValueError"
    /\ Len(flatten(last.arg)) > 1
    /\ flatten(last.arg)[1].k = "int"
    /\ old.split_options # <<>>
    /\ split_options = old.split_options

====
